---- MODULE Spec2Model ----
(***************************************************************************)
(* gitstatus, src/index.cc: the directory tree built from a sorted index   *)
(* (Index::InitDirs), the shard planner (Index::InitSplits), the           *)
(* per-shard directory scanner (ScanDirs) and the scan orchestrator        *)
(* (Index::GetDirtyCandidates).                                            *)
(*                                                                         *)
(* Strings are sequences of ASCII codes: '.' = 46, '/' = 47, 'a' = 97.     *)
(* A C string's terminating NUL is the end of the sequence; inside an      *)
(* arena buffer it is the code 0.                                          *)
(***************************************************************************)
EXTENDS Integers, Sequences, FiniteSets, TLC

VARIABLES
  \* ---- the Index object and the working tree ----
  index,            \* git_index: the sorted tracked records
  dirs,             \* Index::dirs_: the flattened directory nodes
  fs,               \* the working tree on disk
  \* ---- one GetDirtyCandidates call whose only shard runs inline ----
  pc,               \* "idle" | "scan"
  untracked_cache,  \* the call's flag
  begin,            \* ScanDirs: position of `begin` in dirs_ (1-based)
  dir_fd,           \* ScanDirs: the open directory handle, or NoFd
  res,              \* ScanDirs: the shard's result vector
  candidates,       \* the caller's output list
  calls,            \* number of completed calls
  hist,             \* per completed call: its flag and its candidate list
  last,             \* what the last ScanDirs iteration did (observation)
  \* ---- Index::InitSplits ----
  num_threads,      \* GlobalThreadPool()->num_threads()
  weights,          \* Weight(*dirs_[i]) of the flattened directories
  spc,              \* "off" | "loop" | "done" | "abort" (a CHECK failed)
  si,               \* the loop's i
  sw,               \* the loop's w
  splits,           \* Index::splits_
  \* ---- one GetDirtyCandidates call with its shards on the thread pool ----
  nshards,          \* splits_.size() - 1
  workers,          \* pool threads that run scheduled work
  cpc,              \* the caller: "start" | "loop" | "inline" | "wait" | "verify"
                    \*             | "returned" | "failed" (an Exception left the call)
  ci,               \* the dispatch loop's i
  shard,            \* per shard F: [pc, c, by]
  mutex,            \* 0 when free, else the shard holding it
  inflight,
  error,
  root_open,        \* root_fd is open
  aborted,          \* CHECK(inflight) failed
  \* ---- Index::InitDirs ----
  bpc,              \* "off" | "loop" | "done" | "abort" (a CHECK failed)
  bi,               \* the loop's i
  stack,            \* the stack of open directories, the root at the bottom
  popped,           \* dirs_ while it is built (the directories in PopDir order)
  total_w,          \* InitDirs' total_weight
  \* ---- observations of a call whose shards scan dirs_ ----
  touched,          \* per directory node: the shards that have read or written
                    \* its cached_stat, arena_buffer or unmatched_offsets
  dirs0,            \* dirs_ when the call started
  seen              \* per directory node: the stat its most recent successful
                    \* full rescan observed, and whether its most recent scan
                    \* was a soft failure

scanVars == <<index, dirs, fs, pc, untracked_cache, begin, dir_fd, res,
              candidates, calls, hist, last>>

splitVars == <<num_threads, weights, spc, si, sw, splits>>

parVars == <<nshards, workers, cpc, ci, shard, mutex, inflight, error, root_open, aborted>>

\* the scanner's variables but the caller's output list
scanRest == <<index, dirs, fs, pc, untracked_cache, begin, dir_fd, res, calls, hist, last>>

obsVars == <<touched, dirs0, seen>>

buildVars == <<bpc, bi, stack, popped, total_w>>

vars == <<scanVars, splitVars, parVars, obsVars, buildVars>>

----------------------------------------------------------------------------
(* Bounds *)

MaxCalls == 2

MaxDirs == 17

MaxThreads == 1

MaxShards == 3

MaxWorkers == 2

----------------------------------------------------------------------------
(* Strings *)

Range(s) == {s[i] : i \in 1..Len(s)}

Max(a, b) == IF a > b THEN a ELSE b

RECURSIVE CmpFrom(_, _, _)
CmpFrom(a, b, i) ==
  IF i > Len(a) /\ i > Len(b) THEN 0
  ELSE IF i > Len(a) THEN -1
  ELSE IF i > Len(b) THEN 1
  ELSE IF a[i] < b[i] THEN -1
  ELSE IF a[i] > b[i] THEN 1
  ELSE CmpFrom(a, b, i + 1)

\* Cmp(StringView, StringView), strcmp: byte-wise lexicographic order.
Cmp(a, b) == CmpFrom(a, b, 1)

StartsWith(s, p) == Len(p) <= Len(s) /\ SubSeq(s, 1, Len(p)) = p

ReverseNone(s) == s

\* std::reverse
RECURSIVE Reverse(_)
Reverse(s) == IF s = <<>> THEN <<>> ELSE Append(Reverse(Tail(s)), Head(s))

RECURSIVE InsertSorted(_, _)
InsertSorted(s, x) ==
  IF s = <<>> THEN <<x>>
  ELSE IF Cmp(x, Head(s)) < 0 THEN <<x>> \o s
  ELSE <<Head(s)>> \o InsertSorted(Tail(s), x)

RECURSIVE Sort(_)
Sort(s) == IF s = <<>> THEN <<>> ELSE InsertSorted(Sort(Tail(s)), Head(s))

IsSorted(s) == \A i \in 1..(Len(s) - 1) : Cmp(s[i], s[i + 1]) <= 0

\* The first position k >= from with s[k] = '/', or 0 (std::strchr).
RECURSIVE StrChr(_, _)
StrChr(s, from) ==
  IF from > Len(s) THEN 0
  ELSE IF s[from] = 47 THEN from
  ELSE StrChr(s, from + 1)

----------------------------------------------------------------------------
(* Pure helpers of index.cc *)

RECURSIVE CommonDirFrom(_, _, _, _, _)
CommonDirFrom(a, b, i, len, depth) ==
  IF i <= Len(a) /\ i <= Len(b) /\ a[i] = b[i]
  THEN IF a[i] = 47
       THEN CommonDirFrom(a, b, i + 1, i, depth + 1)
       ELSE CommonDirFrom(a, b, i + 1, len, depth)
  ELSE [len |-> len, depth |-> depth]

CommonDir(a, b) == CommonDirFrom(a, b, 1, 0, 0)

Weight(dir) == 1 + Len(dir.subdirs) + Len(dir.files)

S_IFREG == 32768

\* mode & 0111
HasExecBit(mode) ==
  \/ mode % 2 = 1
  \/ (mode \div 8) % 2 = 1
  \/ (mode \div 64) % 2 = 1

\* mode & S_IFMT
FileType(mode) == ((mode \div 4096) % 16) * 4096

Mode(mode) ==
  IF FileType(mode) = S_IFREG
  THEN S_IFREG + (IF HasExecBit(mode) THEN 493 ELSE 420)
  ELSE FileType(mode)

IsModifiedNoSize(entry, st) ==
  \/ entry.mtime_s # st.mtime_s
  \/ entry.mtime_ns # st.mtime_ns
  \/ entry.ino # st.ino
  \/ entry.mode # Mode(st.mode)
  \/ entry.gid # st.gid

IsModified(entry, st) ==
  \/ entry.mtime_s # st.mtime_s
  \/ entry.mtime_ns # st.mtime_ns
  \/ entry.ino # st.ino
  \/ entry.mode # Mode(st.mode)
  \/ entry.gid # st.gid
  \/ entry.file_size # st.size

ZeroStat ==
  [mtime_s |-> 0, mtime_ns |-> 0, ino |-> 0, mode |-> 0, gid |-> 0, size |-> 0]

ZeroDirStat == [dev |-> 0, ino |-> 0, mtime |-> 0, size |-> 0]

\* StatEq of stat.h: the directory fingerprint compared by the fast path.
StatEq(x, y) ==
  /\ x.dev = y.dev
  /\ x.ino = y.ino
  /\ x.mtime = y.mtime
  /\ x.size = y.size

----------------------------------------------------------------------------
(* Index::InitDirs *)

\* IndexDir: path is the StringView (ptr, len); ptr is the C string of the
\* record the directory was first seen in.
NewDir(ptr, len, depth) ==
  [ptr |-> ptr, len |-> len, depth |-> depth, subdirs |-> <<>>,
   files |-> <<>>, st |-> ZeroDirStat, arena |-> <<>>, unmatched |-> <<>>]

Path(dir) == SubSeq(dir.ptr, 1, dir.len)

\* PopDir: b = [stack, dirs, total, ok]; ok is FALSE once a CHECK failed.
PopDir(b) ==
  LET n == Len(b.stack)
      top == b.stack[n]
      sorted == IF IsSorted(top.subdirs) THEN top
                ELSE [top EXCEPT !.subdirs = Sort(top.subdirs)]
  IN [stack |-> SubSeq(b.stack, 1, n - 1),
      dirs |-> Append(b.dirs, sorted),
      total |-> b.total + Weight(top),
      ok |-> b.ok /\ top.depth + 1 = n]

RECURSIVE PopDirs(_, _)
PopDirs(b, n) == IF n <= 0 \/ b.stack = <<>> THEN b ELSE PopDirs(PopDir(b), n - 1)

\* The loop over the '/' of the record's path from offset p (0-based).
RECURSIVE PushDirs(_, _, _)
PushDirs(b, path, p) ==
  LET k == StrChr(path, p + 1)
      n == Len(b.stack)
      top == b.stack[n]
      parent == [top EXCEPT !.subdirs = Append(@, SubSeq(path, top.len + 1, k - 1))]
      dir == NewDir(path, k, n)
  IN IF k = 0 THEN b
     ELSE PushDirs([b EXCEPT !.stack = Append([b.stack EXCEPT ![n] = parent], dir)],
                   path, k)

AddEntry(b, entry) ==
  LET prev == b.stack[Len(b.stack)]
      c == CommonDir(prev.ptr, entry.path)
      b0 == [b EXCEPT !.ok = @ /\ c.depth <= prev.depth]
      b1 == PopDirs(b0, prev.depth - c.depth)
      b2 == PushDirs(b1, entry.path, c.len)
      n == Len(b2.stack)
  IN [b2 EXCEPT !.stack[n].files = Append(@, entry)]

RECURSIVE AddEntries(_, _, _)
AddEntries(b, idx, i) ==
  IF i > Len(idx) \/ ~b.ok THEN b ELSE AddEntries(AddEntry(b, idx[i]), idx, i + 1)

InitDirs(idx) ==
  LET b0 == [stack |-> <<NewDir(<<>>, 0, 0)>>, dirs |-> <<>>, total |-> 0, ok |-> TRUE]
      b1 == AddEntries(b0, idx, 1)
      b2 == PopDirs(b1, Len(b1.stack))
  IN [dirs |-> Reverse(b2.dirs), total_weight |-> b2.total, ok |-> b2.ok]

----------------------------------------------------------------------------
(* Index::InitSplits *)

kMinShardWeight == 512

kNumShards(threads) == 16 * threads

RECURSIVE Sum(_)
Sum(s) == IF s = <<>> THEN 0 ELSE Head(s) + Sum(Tail(s))

ShardWeight(total_weight, threads) ==
  Max(kMinShardWeight, total_weight \div kNumShards(threads))

SplitIterKeepW(s, wt, shard_weight) ==
  IF s.w + wt >= shard_weight
  THEN [i |-> s.i + 1, w |-> s.w + wt, splits |-> Append(s.splits, s.i + 1)]
  ELSE [i |-> s.i + 1, w |-> s.w + wt, splits |-> s.splits]

\* One iteration of the loop: s = [i, w, splits], wt = Weight(*dirs_[i]).
SplitIter(s, wt, shard_weight) ==
  IF s.w + wt >= shard_weight
  THEN [i |-> s.i + 1, w |-> 0, splits |-> Append(s.splits, s.i + 1)]
  ELSE [i |-> s.i + 1, w |-> s.w + wt, splits |-> s.splits]

SplitTailAlways(sp, n) == Append(sp, n)

\* if (splits_.back() != dirs_.size()) splits_.push_back(dirs_.size());
SplitTail(sp, n) == IF sp[Len(sp)] # n THEN Append(sp, n) ELSE sp

RECURSIVE SplitLoop(_, _, _)
SplitLoop(s, ws, shard_weight) ==
  IF s.i = Len(ws) THEN s
  ELSE SplitLoop(SplitIter(s, ws[s.i + 1], shard_weight), ws, shard_weight)

InitSplits(ws, threads) ==
  SplitTail(SplitLoop([i |-> 0, w |-> 0, splits |-> <<0>>], ws,
                      ShardWeight(Sum(ws), threads)).splits, Len(ws))

DirWeights(ds) == [i \in 1..Len(ds) |-> Weight(ds[i])]

----------------------------------------------------------------------------
(* The working tree: fs.dir maps a directory path to [kind, st], kind one of *)
(* "noent" (openat fails), "nostat" (fstat fails), "nolist" (ListDir fails), *)
(* "ok"; fs.file maps a file path to [kind, st], kind one of "absent",       *)
(* "nostat" (listed, but fstatat fails), "file".                             *)

NoFd == <<-1>>

IsDirPresent(d) == d.kind # "noent"

IsFilePresent(f) == f.kind # "absent"

Parent(p) ==
  LET k == CHOOSE k \in 0..Len(p) :
             /\ k = 0 \/ p[k] = 47
             /\ \A j \in (k + 1)..Len(p) : p[j] # 47
  IN SubSeq(p, 1, k)

\* openat(h, rel, O_DIRECTORY): the handle is named by the path it refers to.
OpenAt(f, h, rel) ==
  LET target == IF rel = <<46>> THEN h ELSE h \o rel \o <<47>>
  IN IF target \in DOMAIN f.dir /\ IsDirPresent(f.dir[target]) THEN target ELSE NoFd

\* fstat(dir_fd, &st)
FStat(f, fd) == [ok |-> f.dir[fd].kind # "nostat", st |-> f.dir[fd].st]

\* fstatat(dir_fd, name, &st, AT_SYMLINK_NOFOLLOW), st = {} when it fails
FStatAt(f, fd, name) ==
  LET p == fd \o name
  IN IF p \in DOMAIN f.file /\ f.file[p].kind = "file" THEN f.file[p].st ELSE ZeroStat

\* The names in directory fd: its present files and its present subdirectories.
DirEntries(f, fd) ==
  {[name |-> SubSeq(p, Len(fd) + 1, Len(p)), type |-> "DT_REG"] :
     p \in {q \in DOMAIN f.file : Parent(q) = fd /\ IsFilePresent(f.file[q])}}
  \cup
  {[name |-> SubSeq(p, Len(fd) + 1, Len(p) - 1), type |-> "DT_DIR"] :
     p \in {q \in DOMAIN f.dir :
              q # <<>> /\ Parent(SubSeq(q, 1, Len(q) - 1)) = fd /\ IsDirPresent(f.dir[q])}}

RECURSIVE SetToSeq(_)
SetToSeq(S) ==
  IF S = {} THEN <<>>
  ELSE LET x == CHOOSE x \in S : \A y \in S : Cmp(x.name, y.name) >= 0
       IN <<x>> \o SetToSeq(S \ {x})

\* ListDir(dir_fd, scratch, entries) of dir.h: name and type of every entry,
\* in directory order (here: descending), or failure.
ListDir(f, fd) ==
  [ok |-> f.dir[fd].kind # "nolist", entries |-> SetToSeq(DirEntries(f, fd))]

RECURSIVE InsertEntry(_, _)
InsertEntry(s, x) ==
  IF s = <<>> THEN <<x>>
  ELSE IF Cmp(x.name, Head(s).name) < 0 THEN <<x>> \o s
  ELSE <<Head(s)>> \o InsertEntry(Tail(s), x)

\* std::sort(entries) by strcmp of the names
RECURSIVE SortEntries(_)
SortEntries(s) ==
  IF s = <<>> THEN <<>> ELSE InsertEntry(SortEntries(Tail(s)), Head(s))

----------------------------------------------------------------------------
(* ScanDirs: one iteration of its loop over [begin, end) *)

Basename(dir, e) == SubSeq(e.path, dir.len + 1, Len(e.path))

\* The C string at offset p (0-based) of an arena buffer.
RECURSIVE CStr(_, _)
CStr(arena, p) ==
  IF p + 1 > Len(arena) \/ arena[p + 1] = 0 THEN <<>>
  ELSE <<arena[p + 1]>> \o CStr(arena, p + 1)

AddUnmachedKeepStat(dir, basename) ==
  LET d0 == IF basename = <<>>
            THEN [dir EXCEPT !.arena = <<>>, !.unmatched = <<>>]
            ELSE dir
  IN IF basename # <<>> /\ basename = <<46, 103, 105, 116, 47>> THEN d0
     ELSE [d0 EXCEPT !.unmatched = Append(@, Len(d0.arena)),
                     !.arena = @ \o Path(d0) \o basename \o <<0>>]

AddUnmached(dir, basename) ==
  LET d0 == IF basename = <<>>
            THEN [dir EXCEPT !.st = ZeroDirStat, !.arena = <<>>, !.unmatched = <<>>]
            ELSE dir
  IN IF basename # <<>> /\ basename = <<46, 103, 105, 116, 47>> THEN d0
     ELSE [d0 EXCEPT !.unmatched = Append(@, Len(d0.arena)),
                     !.arena = @ \o Path(d0) \o basename \o <<0>>]

\* ON_SCOPE_EXIT of the iteration: the directory's unmatched paths
Unmatched(dir) == [i \in 1..Len(dir.unmatched) |-> CStr(dir.arena, dir.unmatched[i])]

\* The handle acquisition: reopen relative to the previous directory's handle
\* when it is the parent, otherwise open relative to the root handle.
OpenDir(f, root_fd, fd, prev, dir) ==
  IF fd # NoFd /\ prev.depth + 1 = dir.depth
  THEN OpenAt(f, fd, SubSeq(dir.ptr, prev.len + 1, dir.len - 1))
  ELSE OpenAt(f, root_fd, IF dir.len # 0 THEN SubSeq(dir.ptr, 1, dir.len - 1) ELSE <<46>>)

UseFastPathAlways(uc, st, dir) == StatEq(st, dir.st)

UseFastPath(uc, st, dir) == uc /\ StatEq(st, dir.st)

FastPathTrusting(f, fd, dir) == [res |-> <<>>, statted |-> {}]

\* The fast path: every tracked file of the directory is stat'ed again.
FastPath(f, fd, dir) ==
  LET hit == {i \in 1..Len(dir.files) :
                IsModified(dir.files[i], FStatAt(f, fd, Basename(dir, dir.files[i])))}
      RECURSIVE Emit(_)
      Emit(i) == IF i > Len(dir.files) THEN <<>>
                 ELSE (IF i \in hit THEN <<dir.files[i].path>> ELSE <<>>) \o Emit(i + 1)
  IN [res |-> Emit(1), statted |-> {dir.files[i].path : i \in 1..Len(dir.files)}]

FileMatchNoRacy(f, fd, file, entry) ==
  [emit |-> IsModified(file, FStatAt(f, fd, entry)), statted |-> {file.path}]

\* A real entry with the name of a tracked file: racy, or stat'ed and compared.
FileMatch(f, fd, file, entry) ==
  IF file.newer
  THEN [emit |-> TRUE, statted |-> {}]
  ELSE [emit |-> IsModified(file, FStatAt(f, fd, entry)), statted |-> {file.path}]

\* The tracked file e has the name of the real entry: cmp == 0.
Matched(file, e, acc, m) ==
  [file |-> file + 1, matched |-> TRUE,
   res |-> IF m.emit THEN Append(acc.res, e.path) ELSE acc.res,
   statted |-> acc.statted \cup m.statted]

\* The inner loop over the tracked files for one real entry; file is the
\* position of the `file` pointer (1-based), acc = [res, statted].
RECURSIVE MergeFiles(_, _, _, _, _, _)
MergeFiles(f, fd, dir, entry, file, acc) ==
  IF file > Len(dir.files)
  THEN [file |-> file, matched |-> FALSE, res |-> acc.res, statted |-> acc.statted]
  ELSE IF Cmp(Basename(dir, dir.files[file]), entry) < 0
  THEN MergeFiles(f, fd, dir, entry, file + 1,
                  [acc EXCEPT !.res = Append(@, dir.files[file].path)])
  ELSE IF Cmp(Basename(dir, dir.files[file]), entry) = 0
  THEN Matched(file, dir.files[file], acc, FileMatch(f, fd, dir.files[file], entry))
  ELSE [file |-> file, matched |-> FALSE, res |-> acc.res, statted |-> acc.statted]

\* The inner loop over the known subdirectories for one real entry.
RECURSIVE MergeSubdirs(_, _, _)
MergeSubdirs(dir, entry, subdir) ==
  IF subdir > Len(dir.subdirs) THEN [subdir |-> subdir, matched |-> FALSE]
  ELSE IF Cmp(dir.subdirs[subdir], entry) > 0 THEN [subdir |-> subdir, matched |-> FALSE]
  ELSE IF Cmp(dir.subdirs[subdir], entry) = 0 THEN [subdir |-> subdir + 1, matched |-> TRUE]
  ELSE MergeSubdirs(dir, entry, subdir + 1)

\* if (entry.ptr[-1] == DT_DIR) scratch[p + entry.len++] = '/';
NewName(entry) == IF entry.type = "DT_DIR" THEN entry.name \o <<47>> ELSE entry.name

\* After the loop over the subdirectories: a real entry that matched nothing
\* is new.
AfterSubdirs(a, entry, ms) ==
  IF ms.matched THEN [a EXCEPT !.subdir = ms.subdir]
  ELSE [a EXCEPT !.subdir = ms.subdir, !.dir = AddUnmached(a.dir, NewName(entry))]

\* After the loop over the files: if (matched) continue;
AfterFiles(a, entry, mf) ==
  IF mf.matched
  THEN [a EXCEPT !.file = mf.file, !.res = mf.res, !.statted = mf.statted]
  ELSE AfterSubdirs([a EXCEPT !.file = mf.file, !.res = mf.res, !.statted = mf.statted],
                    entry, MergeSubdirs(a.dir, entry.name, a.subdir))

\* for (size_t p : entries): a = [dir, file, subdir, res, statted]
RECURSIVE MergeEntries(_, _, _, _, _)
MergeEntries(f, fd, entries, k, a) ==
  IF k > Len(entries) THEN a
  ELSE MergeEntries(f, fd, entries, k + 1,
                    AfterFiles(a, entries[k],
                               MergeFiles(f, fd, a.dir, entries[k].name, a.file,
                                          [res |-> a.res, statted |-> a.statted])))

FullRescanAppend(f, fd, dir, st, entries) ==
  LET d0 == [dir EXCEPT !.st = st]
  IN MergeEntries(f, fd, SortEntries(entries), 1,
                  [dir |-> d0, file |-> 1, subdir |-> 1, res |-> <<>>, statted |-> {}])

\* The full rescan of a listed directory.
FullRescan(f, fd, dir, st, entries) ==
  LET d0 == [dir EXCEPT !.st = st, !.arena = <<>>, !.unmatched = <<>>]
  IN MergeEntries(f, fd, SortEntries(entries), 1,
                  [dir |-> d0, file |-> 1, subdir |-> 1, res |-> <<>>, statted |-> {}])

SoftFailureSilent(dir, fd) ==
  [dir |-> dir, fd |-> fd, res |-> <<>>,
   mode |-> "fail", listed |-> FALSE, statted |-> {}]

\* AddUnmached(""); continue;
SoftFailure(dir, fd) ==
  [dir |-> AddUnmached(dir, <<>>), fd |-> fd, res |-> <<>>,
   mode |-> "fail", listed |-> FALSE, statted |-> {}]

\* ON_SCOPE_EXIT of the iteration: r.res is what the iteration appends to
\* the shard's result, the directory's unmatched paths last.
ScopeExit(r) == [r EXCEPT !.res = @ \o Unmatched(r.dir)]

FastResult(dir, fd, fast) ==
  [dir |-> dir, fd |-> fd, res |-> fast.res, mode |-> "fast",
   listed |-> FALSE, statted |-> fast.statted]

FullResult(fd, full) ==
  [dir |-> full.dir, fd |-> fd, res |-> full.res, mode |-> "full",
   listed |-> TRUE, statted |-> full.statted]

ListFailure(r) == [r EXCEPT !.listed = TRUE]

\* The iteration once the directory is open and stat'ed.
ScanListed(f, fd, dir, st, ls) ==
  IF ~ls.ok THEN ListFailure(SoftFailure(dir, fd))
  ELSE FullResult(fd, FullRescan(f, fd, dir, st, ls.entries))

ScanStatted(f, fd, dir, uc, fst) ==
  IF ~fst.ok THEN SoftFailure(dir, fd)
  ELSE IF UseFastPath(uc, fst.st, dir) THEN FastResult(dir, fd, FastPath(f, fd, dir))
  ELSE ScanListed(f, fd, dir, fst.st, ListDir(f, fd))

ScanOpened(f, fd, dir, uc) ==
  IF fd = NoFd THEN SoftFailure(dir, fd)
  ELSE ScanStatted(f, fd, dir, uc, FStat(f, fd))

\* One iteration of the loop of ScanDirs on directory dir, prev being
\* begin[-1], fd0 the handle left open by the previous iteration.
ScanDir(f, root_fd, fd0, prev, dir, uc) ==
  ScopeExit(ScanOpened(f, OpenDir(f, root_fd, fd0, prev, dir), dir, uc))

----------------------------------------------------------------------------
(* The inputs of the scan specification: a root directory that may hold the *)
(* file a, the directory d/ and a .git/ directory; d/ may hold a, b and c.   *)

P_a == <<97>>

P_d == <<100, 47>>

P_da == <<100, 47, 97>>

P_db == <<100, 47, 98>>

P_dc == <<100, 47, 99>>

P_git == <<46, 103, 105, 116, 47>>

Entry(path, mode, newer) ==
  [path |-> path, mtime_s |-> 1, mtime_ns |-> 1, ino |-> 1, mode |-> mode,
   gid |-> 1, file_size |-> 1, newer |-> newer]

\* struct stat of a file equal to the record Entry(path, 0100644, _)
St0 == [mtime_s |-> 1, mtime_ns |-> 1, ino |-> 1, mode |-> 33188, gid |-> 1, size |-> 1]

Absent == [kind |-> "absent", st |-> ZeroStat]

File(st) == [kind |-> "file", st |-> st]

\* The tracked records a path may have (none, or one of these).
EntryChoices(p) ==
  IF p = P_a THEN {Entry(p, 33188, FALSE)}
  ELSE {Entry(p, 33188, FALSE), Entry(p, 33188, TRUE)}

\* The sorted record lists over a, d/b, d/c.
IndexSet ==
  LET Opt(p) == {<<>>} \cup {<<e>> : e \in EntryChoices(p)}
  IN {a \o b \o c : a \in Opt(P_a), b \in Opt(P_db), c \in Opt(P_dc)}

\* What may be on disk at a file path.
FileChoices(p) ==
  IF p = P_a THEN {Absent, File(St0), File([St0 EXCEPT !.mode = 33261])}
  ELSE IF p = P_da THEN {Absent, File(St0)}
  ELSE IF p = P_db
  THEN {Absent, [kind |-> "nostat", st |-> ZeroStat], File(St0),
        File([St0 EXCEPT !.size = 2]), File([St0 EXCEPT !.mode = 33152])}
  ELSE {Absent, File(St0), File([St0 EXCEPT !.gid = 2])}

DirSt1 == [dev |-> 1, ino |-> 1, mtime |-> 1, size |-> 1]

DirNode(kind) == [kind |-> kind, st |-> IF kind \in {"ok", "nolist"} THEN DirSt1 ELSE ZeroDirStat]

DirChoices(p) ==
  IF p = <<>> THEN {DirNode("ok"), DirNode("nolist")}
  ELSE IF p = P_git THEN {DirNode("ok"), DirNode("noent")}
  ELSE {DirNode("ok"), DirNode("noent"), DirNode("nostat"), DirNode("nolist")}

FilePaths == {P_a, P_da, P_db, P_dc}

DirPaths == {<<>>, P_d, P_git}

\* Only a directory that can be opened, stat'ed and listed holds files here:
\* the files of any other directory are never looked at.
FSSet ==
  {f \in [dir : {d \in [DirPaths -> UNION {DirChoices(p) : p \in DirPaths}] :
                   \A p \in DirPaths : d[p] \in DirChoices(p)},
          file : {g \in [FilePaths -> UNION {FileChoices(p) : p \in FilePaths}] :
                    \A p \in FilePaths : g[p] \in FileChoices(p)}] :
     \A p \in FilePaths :
        Parent(p) # <<>> /\ f.dir[Parent(p)].kind # "ok" => f.file[p] = Absent}

----------------------------------------------------------------------------
(* GetDirtyCandidates on an index whose directories form a single shard,    *)
(* which runs on the calling thread.                                        *)

NoLast ==
  [dir |-> 0, mode |-> "none", res |-> <<>>, listed |-> FALSE, statted |-> {},
   st0 |-> ZeroDirStat, fd0 |-> NoFd]

ObsOff ==
  /\ touched = <<>>
  /\ dirs0 = <<>>
  /\ seen = <<>>

BuildOff ==
  /\ bpc = "off"
  /\ bi = 0
  /\ stack = <<>>
  /\ popped = <<>>
  /\ total_w = 0

ParOff ==
  /\ ObsOff
  /\ nshards = 0
  /\ workers = 0
  /\ cpc = "off"
  /\ ci = 0
  /\ shard = <<>>
  /\ mutex = 0
  /\ inflight = 0
  /\ error = FALSE
  /\ root_open = FALSE
  /\ aborted = FALSE

InitScan ==
  /\ BuildOff
  /\ ParOff
  /\ index \in IndexSet
  /\ InitDirs(index).ok
  /\ dirs = InitDirs(index).dirs
  /\ fs \in FSSet
  /\ pc = "idle"
  /\ untracked_cache = FALSE
  /\ begin = 0
  /\ dir_fd = NoFd
  /\ res = <<>>
  /\ candidates = <<>>
  /\ calls = 0
  /\ hist = <<>>
  /\ last = NoLast
  /\ num_threads = 1
  /\ weights = DirWeights(dirs)
  /\ spc = "off"
  /\ si = Len(dirs)
  /\ sw = 0
  /\ splits = InitSplits(weights, num_threads)

\* open(root_dir_), candidates.clear(), and the start of the shard [0, n)
CallUpTo(uc, n) ==
  /\ pc = "idle"
  /\ calls < n
  /\ OpenAt(fs, <<>>, <<46>>) # NoFd
  /\ Len(splits) = 2
  /\ pc' = "scan"
  /\ untracked_cache' = uc
  /\ begin' = splits[1] + 1
  /\ dir_fd' = NoFd
  /\ res' = <<>>
  /\ candidates' = <<>>
  /\ last' = NoLast
  /\ UNCHANGED <<buildVars, obsVars, index, dirs, fs, calls, hist, splitVars, parVars>>

Call(uc) == CallUpTo(uc, MaxCalls)

\* One iteration of the loop of ScanDirs.
ScanIter ==
  /\ pc = "scan"
  /\ begin <= splits[2]
  /\ \E r \in {ScanDir(fs, <<>>, dir_fd,
                          IF begin > splits[1] + 1 THEN dirs[begin - 1] ELSE dirs[begin],
                          dirs[begin], untracked_cache)} :
        /\ dirs' = [dirs EXCEPT ![begin] = r.dir]
        /\ dir_fd' = r.fd
        /\ res' = res \o r.res
        /\ last' = [dir |-> begin, mode |-> r.mode, res |-> r.res,
                    listed |-> r.listed, statted |-> r.statted,
                    st0 |-> dirs[begin].st, fd0 |-> dir_fd]
  /\ begin' = begin + 1
  /\ UNCHANGED <<buildVars, touched, dirs0, index, fs, pc, untracked_cache, candidates,
                 calls, hist, splitVars, parVars>>

ScanStep == ScanIter /\ UNCHANGED seen

\* The end of the shard and of the call: close(dir_fd), the insertion of the
\* shard's result, the wait for inflight == 0, Sort(candidates), close(root_fd).
Return ==
  /\ pc = "scan"
  /\ begin > splits[2]
  /\ pc' = "idle"
  /\ dir_fd' = NoFd
  /\ candidates' = Sort(candidates \o res)
  /\ calls' = calls + 1
  /\ hist' = Append(hist, [uc |-> untracked_cache, candidates |-> candidates'])
  /\ UNCHANGED <<buildVars, obsVars, index, dirs, fs, untracked_cache, begin, res, last, splitVars, parVars>>

NextScan ==
  \/ \E uc \in BOOLEAN : Call(uc)
  \/ ScanStep
  \/ Return

Spec == InitScan /\ [][NextScan]_vars

----------------------------------------------------------------------------
(* Observations used by the claims about the scanner *)

\* The directory of the last iteration, after it.
LastDir == dirs[last.dir]

\* The names the listing primitive yields for a directory.
ListedNames(dir) == {e.name : e \in DirEntries(fs, Path(dir))}

FilesOf(dir) == Range(dir.files)

\* A directory that can be opened, stat'ed and listed.
Available(dir) == fs.dir[Path(dir)].kind = "ok"

\* Field by field: the record against the file's no-follow stat, a failed
\* stat being all-zero metadata.
Differs(dir, e) ==
  LET p == e.path
      st == IF fs.file[p].kind = "file" THEN fs.file[p].st ELSE ZeroStat
      norm == IF (st.mode \div 4096) % 16 = 8
              THEN (IF st.mode % 2 = 1 \/ (st.mode \div 8) % 2 = 1 \/ (st.mode \div 64) % 2 = 1
                    THEN 33261 ELSE 33188)
              ELSE ((st.mode \div 4096) % 16) * 4096
  IN \/ e.mtime_s # st.mtime_s
     \/ e.mtime_ns # st.mtime_ns
     \/ e.ino # st.ino
     \/ e.mode # norm
     \/ e.gid # st.gid
     \/ e.file_size # st.size

\* The real entries of a directory that are neither a tracked file nor a
\* tracked subdirectory of it, as full paths (a directory with a trailing
\* slash), the .git/ directory left out.
Untracked(dir) ==
  {Path(dir) \o (IF e.type = "DT_DIR" THEN e.name \o <<47>> ELSE e.name) :
     e \in {x \in DirEntries(fs, Path(dir)) :
              /\ x.name \notin {Basename(dir, g) : g \in FilesOf(dir)}
              /\ x.name \notin Range(dir.subdirs)
              /\ ~(x.type = "DT_DIR" /\ x.name = <<46, 103, 105, 116>>)}}

\* What is dirty in the working tree whatever the cached state.
StillDirty ==
  UNION {IF Available(dirs[i])
         THEN {e.path : e \in {g \in FilesOf(dirs[i]) : Differs(dirs[i], g)}}
              \cup Untracked(dirs[i])
         ELSE {Path(dirs[i])} : i \in 1..Len(dirs)}

----------------------------------------------------------------------------
(* Claims about the scanner, under Spec *)

\* C1: in a full rescan of a listed directory, every tracked file of the
\* directory whose basename is not among the real entries is emitted,
\* wherever its name sorts and however many real entries there are.
C1_DeletedFilesReported ==
  last.mode = "full" =>
    \A e \in FilesOf(LastDir) :
       Basename(LastDir, e) \notin ListedNames(LastDir) => e.path \in Range(last.res)

C7_RacyReported ==
  last.mode = "full" =>
    \A e \in FilesOf(LastDir) :
       e.newer /\ Basename(LastDir, e) \in ListedNames(LastDir)
         => e.path \in Range(last.res)

\* A full rescan has reported a racy file whose stat equals its record.
C7_Witness ==
  /\ last.mode = "full"
  /\ \E e \in FilesOf(LastDir) :
        /\ e.newer
        /\ Basename(LastDir, e) \in ListedNames(LastDir)
        /\ ~Differs(LastDir, e)
        /\ e.path \in Range(last.res)

\* C8: a directory whose open, stat or listing fails contributes exactly its
\* own path, none of its files is stat'ed, the scan goes on with the next
\* directory, and the call's list holds the own path of every such directory.
C8_SoftFailure ==
  /\ last.mode = "fail" =>
       /\ last.res = <<Path(LastDir)>>
       /\ last.statted = {}
       /\ begin = last.dir + 1
       /\ ~Available(LastDir)
  /\ \A k \in 1..Len(hist) : \A i \in 1..Len(dirs) :
       ~Available(dirs[i]) =>
         Cardinality({j \in 1..Len(hist[k].candidates) :
                        hist[k].candidates[j] = Path(dirs[i])}) = 1

\* The root could not be listed and the next directory has been scanned after it.
C8_Witness ==
  /\ last.dir = 2
  /\ ~Available(dirs[1])
  /\ Path(dirs[1]) \in Range(res)
  /\ LastDir.files # <<>>

\* C9: in the fast path every tracked file, and in the full rescan every
\* tracked file that is not racy and has a matching real entry, is reported
\* if and only if one of mtime seconds, mtime nanoseconds, inode, normalized
\* mode, group id, size differs between record and stat.
C9_ModifiedIff ==
  /\ last.mode = "fast" =>
       \A e \in FilesOf(LastDir) :
          e.path \in Range(last.res) <=> Differs(LastDir, e)
  /\ last.mode = "full" =>
       \A e \in FilesOf(LastDir) :
          ~e.newer /\ Basename(LastDir, e) \in ListedNames(LastDir)
            => (e.path \in Range(last.res) <=> Differs(LastDir, e))

\* The fast path has reported a file that differs in size alone, and a full
\* rescan could have as well.
C9_Witness ==
  /\ last.mode = "fast"
  /\ \E e \in FilesOf(LastDir) :
        /\ fs.file[e.path] = File([St0 EXCEPT !.size = 2])
        /\ e.path \in Range(last.res)

\* C10: the listing primitive is invoked for a directory exactly when it was
\* opened and stat'ed and the fast path is disabled or the observed stat
\* differs from the cached one; the fast path lists nothing and stats
\* exactly the directory's tracked files.
C10_ListingIff ==
  last.mode # "none" =>
    /\ last.listed <=>
         /\ IsDirPresent(fs.dir[Path(LastDir)])
         /\ fs.dir[Path(LastDir)].kind # "nostat"
         /\ ~untracked_cache \/ ~StatEq(fs.dir[Path(LastDir)].st, last.st0)
    /\ last.mode = "fast" =>
         /\ ~last.listed
         /\ last.statted = {e.path : e \in FilesOf(LastDir)}

\* The fast path was taken for a directory with tracked files.
C10_Witness ==
  /\ last.mode = "fast"
  /\ ~last.listed
  /\ LastDir.files # <<>>

----------------------------------------------------------------------------
(* Index::InitSplits, step by step, on the weights of a chain of directories *)
(* root/d1/d2/...: directory i holds one subdirectory (but the last) and any *)
(* number of files, so every list of weights >= 2 is the list of some index. *)

\* The weights of a directory of the chain: with 0, 254, 510 or 1022 files.
ChainWeights == {2, 256, 512, 1024}

\* Chains of up to MaxDirs directories of one weight, but at most two of them.
\* The empty index has the root alone, of weight 1.
WeightLists ==
  {[k \in 1..n |-> IF k \in {i, j} THEN l ELSE h] :
     n \in 1..MaxDirs, i \in 0..MaxDirs, j \in 0..MaxDirs,
     l \in ChainWeights, h \in ChainWeights}
  \cup {<<1>>}

ScanOff ==
  /\ index = <<>>
  /\ dirs = <<>>
  /\ fs = [dir |-> <<>>, file |-> <<>>]
  /\ pc = "off"
  /\ untracked_cache = FALSE
  /\ begin = 0
  /\ dir_fd = NoFd
  /\ res = <<>>
  /\ candidates = <<>>
  /\ calls = 0
  /\ hist = <<>>
  /\ last = NoLast

InitSplitsStart ==
  /\ BuildOff
  /\ ScanOff
  /\ ParOff
  /\ num_threads \in 1..MaxThreads
  /\ weights \in WeightLists
  /\ spc = "loop"
  /\ si = 0
  /\ sw = 0
  /\ splits = <<0>>

SplitStep ==
  /\ spc = "loop"
  /\ si # Len(weights)
  /\ LET s == SplitIter([i |-> si, w |-> sw, splits |-> splits], weights[si + 1],
                        ShardWeight(Sum(weights), num_threads))
     IN /\ si' = s.i
        /\ sw' = s.w
        /\ splits' = s.splits
  /\ UNCHANGED <<buildVars, obsVars, scanVars, parVars, num_threads, weights, spc>>

\* The final boundary and the three CHECKs.
SplitEnd ==
  /\ spc = "loop"
  /\ si = Len(weights)
  /\ splits' = SplitTail(splits, Len(weights))
  /\ spc' = IF /\ Len(splits') <= kNumShards(num_threads) + 1
               /\ \A k \in 1..(Len(splits') - 1) : splits'[k] < splits'[k + 1]
            THEN "done" ELSE "abort"
  /\ UNCHANGED <<buildVars, obsVars, scanVars, parVars, num_threads, weights, si, sw>>

NextSplits ==
  \/ SplitStep
  \/ SplitEnd

SpecSplits == InitSplitsStart /\ [][NextSplits]_vars

\* C3: the boundary list never has more than 16 x worker count + 1 entries,
\* so CHECK(splits_.size() <= kNumShards + 1) never fails.
C3_SplitCount ==
  /\ Len(splits) <= 16 * num_threads + 1
  /\ spc # "abort"

\* InitSplits has run to its end (its CHECKs passed or one of them failed).
SplitsBuilt == spc \in {"done", "abort"}

\* The weight of the shard [splits[k], splits[k + 1]).
ShardSum(k) == Sum(SubSeq(weights, splits[k] + 1, splits[k + 1]))

\* C12: the boundary list is strictly increasing, starts at 0 and ends at
\* the number of directory nodes, so every directory node is in exactly one
\* shard, a contiguous range of the list; also for the empty index.
C12_SplitsPartition ==
  /\ splits[1] = 0
  /\ \A k \in 1..(Len(splits) - 1) : splits[k] < splits[k + 1]
  /\ SplitsBuilt =>
       /\ splits[Len(splits)] = Len(weights)
       /\ Len(splits) >= 2
       /\ \A d \in 1..Len(weights) :
            Cardinality({k \in 1..(Len(splits) - 1) :
                           splits[k] < d /\ d <= splits[k + 1]}) = 1

\* Several shards, the last boundary cut by the loop itself.
C12_Witness ==
  /\ spc = "done"
  /\ Len(splits) >= 3
  /\ sw = 0
  /\ splits[Len(splits)] = Len(weights)

\* C13: every shard but the last weighs at least
\* max(512, total_weight / (16 x worker count)), hence at least 512.
C13_ShardWeight ==
  SplitsBuilt =>
    \A k \in 1..(Len(splits) - 2) :
       /\ ShardSum(k) >= 512
       /\ ShardSum(k) >= Sum(weights) \div (16 * num_threads)

\* Several shards, the last one lighter than the threshold and an earlier
\* one of several directories.
C13_Witness ==
  /\ spc = "done"
  /\ Len(splits) >= 3
  /\ ShardSum(Len(splits) - 1) < 512
  /\ \E k \in 1..(Len(splits) - 2) : splits[k + 1] - splits[k] >= 2

----------------------------------------------------------------------------
(* Index::GetDirtyCandidates with its shards: the caller, the tasks F it    *)
(* schedules on the thread pool, and the last F, which it runs itself. What  *)
(* ScanDirs returns for a shard, or that it throws, is an input.             *)

\* The candidate a shard's ScanDirs may report: later shards sort first.
ShardPath(i) == <<122 - i>>

ShardResults(i) == {<<>>, <<ShardPath(i)>>}

SplitsOff ==
  /\ num_threads = 0
  /\ weights = <<>>
  /\ spc = "off"
  /\ si = 0
  /\ sw = 0
  /\ splits = <<>>

InitPar ==
  /\ BuildOff
  /\ ScanOff
  /\ SplitsOff
  /\ ObsOff
  /\ nshards \in 1..MaxShards
  /\ workers \in 0..MaxWorkers
  /\ cpc = "start"
  /\ ci = 0
  /\ shard = [i \in 1..nshards |-> [pc |-> "none", c |-> <<>>, by |-> "none"]]
  /\ mutex = 0
  /\ inflight = 0
  /\ error = FALSE
  /\ root_open = FALSE
  /\ aborted = FALSE

RunsInlineNever(i, n) == FALSE

\* if (i == splits_.size() - 2) F(); else Schedule(F);
RunsInline(i, n) == i = n - 1

WaitOverEarly(n) == n <= 1

\* while (inflight) cv.wait(lock);
WaitOver(n) == n = 0

\* The tasks a pool thread is running.
Busy == Cardinality({i \in 1..nshards : shard[i].by = "pool" /\ shard[i].pc # "done"})

\* open(root_dir_) and VERIFY(root_fd >= 0); the locals; candidates.clear().
Open(ok) ==
  /\ cpc = "start"
  /\ IF ok
     THEN /\ root_open' = TRUE
          /\ inflight' = nshards
          /\ error' = FALSE
          /\ candidates' = <<>>
          /\ ci' = 0
          /\ cpc' = "loop"
     ELSE /\ cpc' = "failed"
          /\ UNCHANGED <<root_open, inflight, error, candidates, ci>>
  /\ UNCHANGED <<buildVars, obsVars, scanRest, splitVars, nshards, workers, shard, mutex, aborted>>

\* GlobalThreadPool()->Schedule(std::move(F))
Schedule ==
  /\ cpc = "loop"
  /\ ci # nshards
  /\ ~RunsInline(ci, nshards)
  /\ shard' = [shard EXCEPT ![ci + 1].pc = "queued"]
  /\ ci' = ci + 1
  /\ UNCHANGED <<buildVars, obsVars, scanVars, splitVars, nshards, workers, cpc, mutex, inflight, error,
                 root_open, aborted>>

\* F() on the calling thread
Inline ==
  /\ cpc = "loop"
  /\ ci # nshards
  /\ RunsInline(ci, nshards)
  /\ shard' = [shard EXCEPT ![ci + 1].pc = "scan", ![ci + 1].by = "caller"]
  /\ cpc' = "inline"
  /\ UNCHANGED <<buildVars, obsVars, scanVars, splitVars, nshards, workers, ci, mutex, inflight, error,
                 root_open, aborted>>

\* F() has returned to the loop
InlineDone ==
  /\ cpc = "inline"
  /\ shard[ci + 1].pc = "done"
  /\ ci' = ci + 1
  /\ cpc' = "loop"
  /\ UNCHANGED <<buildVars, obsVars, scanVars, splitVars, nshards, workers, shard, mutex, inflight, error,
                 root_open, aborted>>

LoopEnd ==
  /\ cpc = "loop"
  /\ ci = nshards
  /\ cpc' = "wait"
  /\ UNCHANGED <<buildVars, obsVars, scanVars, splitVars, nshards, workers, ci, shard, mutex, inflight,
                 error, root_open, aborted>>

\* The caller takes the mutex and leaves the wait once inflight is 0.
Wait ==
  /\ cpc = "wait"
  /\ mutex = 0
  /\ WaitOver(inflight)
  /\ cpc' = "verify"
  /\ UNCHANGED <<buildVars, obsVars, scanVars, splitVars, nshards, workers, ci, shard, mutex, inflight,
                 error, root_open, aborted>>

SortCandidatesNot(c) == c

\* Sort(candidates);
SortCandidates(c) == Sort(c)

\* VERIFY(!error); Sort(candidates); and the scope exit's close(root_fd)
Finish ==
  /\ cpc = "verify"
  /\ IF error
     THEN cpc' = "failed" /\ UNCHANGED candidates
     ELSE cpc' = "returned" /\ candidates' = SortCandidates(candidates)
  /\ root_open' = FALSE
  /\ UNCHANGED <<buildVars, obsVars, scanRest, splitVars, nshards, workers, ci, shard, mutex, inflight,
                 error, aborted>>

\* A pool thread takes a scheduled task.
Start(i) ==
  /\ shard[i].pc = "queued"
  /\ Busy < workers
  /\ shard' = [shard EXCEPT ![i].pc = "scan", ![i].by = "pool"]
  /\ UNCHANGED <<buildVars, obsVars, scanVars, splitVars, nshards, workers, cpc, ci, mutex, inflight, error,
                 root_open, aborted>>

\* ScanDirs(...) returns the shard's candidates.
Scanned(i, c) ==
  /\ shard[i].pc = "scan"
  /\ shard' = [shard EXCEPT ![i].c = c,
                            ![i].pc = IF c # <<>> THEN "insert" ELSE "exit"]
  /\ UNCHANGED <<buildVars, obsVars, scanVars, splitVars, nshards, workers, cpc, ci, mutex, inflight, error,
                 root_open, aborted>>

\* ScanDirs(...) throws an Exception, which F catches.
Thrown(i) ==
  /\ shard[i].pc = "scan"
  /\ shard' = [shard EXCEPT ![i].pc = "catch"]
  /\ UNCHANGED <<buildVars, obsVars, scanVars, splitVars, nshards, workers, cpc, ci, mutex, inflight, error,
                 root_open, aborted>>

\* std::unique_lock<std::mutex> lock(mutex) in the try block, the handler
\* or the scope exit
Lock(i) ==
  /\ shard[i].pc \in {"insert", "catch", "exit"}
  /\ mutex = 0
  /\ mutex' = i
  /\ shard' = [shard EXCEPT ![i].pc = IF @ = "insert" THEN "inserting"
                                      ELSE IF @ = "catch" THEN "catching"
                                      ELSE "exiting"]
  /\ UNCHANGED <<buildVars, obsVars, scanVars, splitVars, nshards, workers, cpc, ci, inflight, error,
                 root_open, aborted>>

\* candidates.insert(candidates.end(), c.begin(), c.end()); and the unlock
Insert(i) ==
  /\ shard[i].pc = "inserting"
  /\ candidates' = candidates \o shard[i].c
  /\ mutex' = 0
  /\ shard' = [shard EXCEPT ![i].pc = "exit"]
  /\ UNCHANGED <<buildVars, obsVars, scanRest, splitVars, nshards, workers, cpc, ci, inflight, error,
                 root_open, aborted>>

\* error = true; and the unlock
Catch(i) ==
  /\ shard[i].pc = "catching"
  /\ error' = TRUE
  /\ mutex' = 0
  /\ shard' = [shard EXCEPT ![i].pc = "exit"]
  /\ UNCHANGED <<buildVars, obsVars, scanVars, splitVars, nshards, workers, cpc, ci, inflight, root_open,
                 aborted>>

\* CHECK(inflight); if (--inflight == 0) cv.notify_one(); and the unlock
Exit(i) ==
  /\ shard[i].pc = "exiting"
  /\ IF inflight = 0
     THEN aborted' = TRUE /\ UNCHANGED inflight
     ELSE inflight' = inflight - 1 /\ UNCHANGED aborted
  /\ mutex' = 0
  /\ shard' = [shard EXCEPT ![i].pc = "done"]
  /\ UNCHANGED <<buildVars, obsVars, scanVars, splitVars, nshards, workers, cpc, ci, error, root_open>>

CallerNext ==
  \/ \E ok \in BOOLEAN : Open(ok)
  \/ Schedule
  \/ Inline
  \/ InlineDone
  \/ LoopEnd
  \/ Wait
  \/ Finish

ShardNext(i) ==
  \/ Start(i)
  \/ \E c \in ShardResults(i) : Scanned(i, c)
  \/ Thrown(i)
  \/ Lock(i)
  \/ Insert(i)
  \/ Catch(i)
  \/ Exit(i)

NextPar ==
  \/ \E ok \in BOOLEAN : Open(ok)
  \/ Schedule
  \/ Inline
  \/ InlineDone
  \/ LoopEnd
  \/ Wait
  \/ Finish
  \/ \E i \in 1..nshards : Start(i)
  \/ \E i \in 1..nshards : \E c \in ShardResults(i) : Scanned(i, c)
  \/ \E i \in 1..nshards : Thrown(i)
  \/ \E i \in 1..nshards : Lock(i)
  \/ \E i \in 1..nshards : Insert(i)
  \/ \E i \in 1..nshards : Catch(i)
  \/ \E i \in 1..nshards : Exit(i)

SpecPar == InitPar /\ [][NextPar]_vars

\* The calling thread runs; a pool thread, when there is one, runs the tasks
\* scheduled on the pool.
SpecParFair ==
  /\ SpecPar
  /\ WF_vars(CallerNext)
  /\ \A i \in 1..MaxShards : WF_vars(i \in 1..nshards /\ ShardNext(i))

----------------------------------------------------------------------------
(* Claims about the orchestrator *)

CallOver == cpc \in {"returned", "failed"}

Finished(i) == shard[i].pc \in {"none", "done"}

\* C4: when a shard raised a failure, the call fails and the caller's list
\* holds no partial result.
C4_NoPartialResult == cpc = "failed" /\ error => candidates = <<>>

C6_WaitsForShards ==
  /\ ~aborted
  /\ cpc \notin {"start", "failed"} \/ root_open
       => inflight = Cardinality({i \in 1..nshards : shard[i].pc # "done"})
  /\ cpc \in {"verify", "returned", "failed"} => \A i \in 1..nshards : Finished(i)
  /\ ~root_open => \A i \in 1..nshards : Finished(i)
  /\ cpc \in {"verify", "returned"} => \A i \in 1..nshards : shard[i].pc = "done"

\* The call failed after a pool shard threw and every shard had finished.
C6_Witness ==
  /\ cpc = "failed"
  /\ error
  /\ nshards >= 2
  /\ \A i \in 1..nshards : shard[i].pc = "done"

----------------------------------------------------------------------------
(* The scanner on an index that holds the same path more than once: the     *)
(* stage entries of a path in conflict are records of their own, one after   *)
(* the other in the sorted list, and InitDirs files each of them.            *)

\* The stage entries of d/b: the same path, different blobs.
StageEntries == <<Entry(P_db, 33188, FALSE), [Entry(P_db, 33188, FALSE) EXCEPT !.file_size = 2]>>

ConflictIndexSet ==
  {StageEntries \o c : c \in {<<>>, <<Entry(P_dc, 33188, FALSE)>>}}

InitConflict ==
  /\ BuildOff
  /\ ParOff
  /\ index \in ConflictIndexSet
  /\ InitDirs(index).ok
  /\ dirs = InitDirs(index).dirs
  /\ fs \in FSSet
  /\ pc = "idle"
  /\ untracked_cache = FALSE
  /\ begin = 0
  /\ dir_fd = NoFd
  /\ res = <<>>
  /\ candidates = <<>>
  /\ calls = 0
  /\ hist = <<>>
  /\ last = NoLast
  /\ num_threads = 1
  /\ weights = DirWeights(dirs)
  /\ spc = "off"
  /\ si = Len(dirs)
  /\ sw = 0
  /\ splits = InitSplits(weights, num_threads)

SpecConflict == InitConflict /\ [][NextScan]_vars

\* C11: after every successful call the returned list is sorted, holds no
\* path twice, and holds the candidates of this call only.
C11_SortedDeduplicated ==
  /\ \A k \in 1..Len(hist) : \A i \in 1..(Len(hist[k].candidates) - 1) :
        Cmp(hist[k].candidates[i], hist[k].candidates[i + 1]) < 0
  /\ pc = "idle" /\ calls > 0 =>
        /\ candidates = hist[calls].candidates
        /\ Range(candidates) = Range(res)

----------------------------------------------------------------------------
(* GetDirtyCandidates with its shards scanning the directory nodes: every    *)
(* F runs ScanDirs on its range [from, to) of dirs_, one directory a step,   *)
(* on a pool thread or, the last one, on the calling thread. The boundary    *)
(* list is any list InitSplits can build for directories of these shapes     *)
(* (0 first, dirs_.size() last, strictly increasing): where the boundaries   *)
(* fall depends on the directories' weights only, which the scan never reads. *)

P_de == <<100, 47, 101, 47>>

P_def == <<100, 47, 101, 47, 102>>

P_e == <<101, 47>>

P_ef == <<101, 47, 102>>

\* d/b with d/e/f (a chain of directories) or with e/f (two siblings).
ShardIndexSet ==
  {<<Entry(P_db, 33188, FALSE), Entry(P_def, 33188, FALSE)>>,
   <<Entry(P_db, 33188, FALSE), Entry(P_ef, 33188, FALSE)>>}

ShardDirPaths == {<<>>, P_d, P_de, P_e}

ShardFilePaths == {P_da, P_db, P_def, P_ef}

\* The working trees: everything in place; e/ unreadable, d/b modified and
\* the file of d/e/ missing; d/ missing; each with or without an untracked d/a.
ShardFSSet ==
  {[dir |-> [p \in ShardDirPaths |->
               IF p = <<>> THEN DirNode("ok")
               ELSE IF p = P_e THEN DirNode(t.e)
               ELSE DirNode(t.d)],
    file |-> [p \in ShardFilePaths |->
               IF p = P_ef THEN (IF t.e = "ok" THEN t.f ELSE Absent)
               ELSE IF t.d # "ok" THEN Absent
               ELSE IF p = P_da THEN a
               ELSE IF p = P_db THEN t.b
               ELSE t.f]] :
     t \in {[d |-> "ok", e |-> "ok", b |-> File(St0), f |-> File(St0)],
            [d |-> "ok", e |-> "nolist", b |-> File([St0 EXCEPT !.size = 2]), f |-> Absent],
            [d |-> "noent", e |-> "ok", b |-> Absent, f |-> File(St0)]},
     a \in {Absent, File(St0)}}

\* The boundary lists over n directories.
SplitLists(n) ==
  {sp \in UNION {[1..k -> 0..n] : k \in 2..(n + 1)} :
     /\ sp[1] = 0
     /\ sp[Len(sp)] = n
     /\ \A k \in 1..(Len(sp) - 1) : sp[k] < sp[k + 1]}

\* size_t from = splits_[i];
ShardFrom(sp, i) == sp[i]

ShardToLast(sp, i) == sp[Len(sp)]

\* size_t to = splits_[i + 1];
ShardTo(sp, i) == sp[i + 1]

\* ScanDirs on dirs_[k .. to] in one go: ds the nodes, k the position of
\* begin, fd the open handle.
RECURSIVE ScanAll(_, _, _, _, _, _)
ScanAll(f, ds, k, to, fd, uc) ==
  IF k > to THEN [dirs |-> ds, res |-> <<>>]
  ELSE LET r == ScanDir(f, <<>>, fd, ds[IF k > 1 THEN k - 1 ELSE k], ds[k], uc)
           rest == ScanAll(f, [ds EXCEPT ![k] = r.dir], k + 1, to, r.fd, uc)
       IN [dirs |-> rest.dirs, res |-> r.res \o rest.res]

\* A shard F before it runs: ScanDirs' locals and the handles it has opened
\* and closed so far (a handle opened for dirs_[k] is named k).
NewShard(sp, i) ==
  [pc |-> "none", c |-> <<>>, by |-> "none", begin |-> ShardFrom(sp, i) + 1,
   dir_fd |-> NoFd, res |-> <<>>, opened |-> {}, closed |-> <<>>]

InitShards ==
  /\ BuildOff
  /\ index \in ShardIndexSet
  /\ fs \in ShardFSSet
  \* a fresh Index, or one that has scanned this tree before
  /\ \/ /\ untracked_cache = FALSE
        /\ dirs = InitDirs(index).dirs
     \/ /\ untracked_cache = TRUE
        /\ dirs = ScanAll(fs, InitDirs(index).dirs, 1, Len(InitDirs(index).dirs),
                          NoFd, FALSE).dirs
  /\ pc = "off"
  /\ begin = 0
  /\ dir_fd = NoFd
  /\ res = <<>>
  /\ candidates = <<>>
  /\ calls = 0
  /\ hist = <<>>
  /\ last = NoLast
  /\ touched = [k \in 1..Len(dirs) |-> {}]
  /\ dirs0 = dirs
  /\ seen = <<>>
  /\ num_threads = 1
  /\ weights = <<>>
  /\ spc = "off"
  /\ si = 0
  /\ sw = 0
  /\ splits \in SplitLists(Len(dirs))
  /\ nshards = Len(splits) - 1
  /\ workers \in 1..MaxWorkers
  /\ cpc = "start"
  /\ ci = 0
  /\ shard = [i \in 1..nshards |-> NewShard(splits, i)]
  /\ mutex = 0
  /\ inflight = 0
  /\ error = FALSE
  /\ root_open = FALSE
  /\ aborted = FALSE

\* close(dir_fd) before the next directory is opened (lines 111 and 121): the
\* handle h is closed when one is open.
CloseBefore(fd0, h) == IF fd0 # NoFd THEN <<h>> ELSE <<>>

CloseAtExitLeak(fd, h) == <<>>

\* ON_SCOPE_EXIT of ScanDirs: if (dir_fd >= 0) CHECK(!close(dir_fd));
CloseAtExit(fd, h) == IF fd # NoFd THEN <<h>> ELSE <<>>

\* One iteration of the loop of ScanDirs in shard i.
ShardScan(i) ==
  /\ shard[i].pc = "scan"
  /\ shard[i].begin <= ShardTo(splits, i)
  /\ LET b == shard[i].begin
         fd0 == shard[i].dir_fd
     IN \E r \in {ScanDir(fs, <<>>, fd0,
                          IF b > ShardFrom(splits, i) + 1 THEN dirs[b - 1] ELSE dirs[b],
                          dirs[b], untracked_cache)} :
          /\ dirs' = [dirs EXCEPT ![b] = r.dir]
          /\ touched' = [touched EXCEPT ![b] = @ \cup {i}]
          /\ shard' = [shard EXCEPT
                         ![i].begin = b + 1,
                         ![i].dir_fd = r.fd,
                         ![i].res = @ \o r.res,
                         ![i].closed = @ \o CloseBefore(fd0, b - 1),
                         ![i].opened = IF r.fd # NoFd THEN @ \cup {b} ELSE @]
  /\ UNCHANGED <<buildVars, index, fs, pc, untracked_cache, begin, dir_fd, res, candidates, calls,
                 hist, last, splitVars, nshards, workers, cpc, ci, mutex, inflight, error,
                 root_open, aborted, dirs0, seen>>

\* ScanDirs returns: its scope exit closes the last handle.
ShardScanEnd(i) ==
  /\ shard[i].pc = "scan"
  /\ shard[i].begin > ShardTo(splits, i)
  /\ shard' = [shard EXCEPT
                 ![i].c = shard[i].res,
                 ![i].dir_fd = NoFd,
                 ![i].closed = @ \o CloseAtExit(shard[i].dir_fd, shard[i].begin - 1),
                 ![i].pc = IF shard[i].res # <<>> THEN "insert" ELSE "exit"]
  /\ UNCHANGED <<buildVars, scanVars, splitVars, obsVars, nshards, workers, cpc, ci, mutex, inflight,
                 error, root_open, aborted>>

\* ScanDirs throws an Exception between two directories: its scope exit
\* closes the open handle and F catches the Exception.
ShardThrown(i) ==
  /\ shard[i].pc = "scan"
  /\ shard' = [shard EXCEPT
                 ![i].dir_fd = NoFd,
                 ![i].closed = @ \o CloseAtExit(shard[i].dir_fd, shard[i].begin - 1),
                 ![i].pc = "catch"]
  /\ UNCHANGED <<buildVars, scanVars, splitVars, obsVars, nshards, workers, cpc, ci, mutex, inflight,
                 error, root_open, aborted>>

NextShards ==
  \/ \E ok \in BOOLEAN : Open(ok)
  \/ Schedule
  \/ Inline
  \/ InlineDone
  \/ LoopEnd
  \/ Wait
  \/ Finish
  \/ \E i \in 1..nshards : Start(i)
  \/ \E i \in 1..nshards : ShardScan(i)
  \/ \E i \in 1..nshards : ShardScanEnd(i)
  \/ \E i \in 1..nshards : ShardThrown(i)
  \/ \E i \in 1..nshards : Lock(i)
  \/ \E i \in 1..nshards : Insert(i)
  \/ \E i \in 1..nshards : Catch(i)
  \/ \E i \in 1..nshards : Exit(i)

SpecShards == InitShards /\ [][NextShards]_vars

----------------------------------------------------------------------------
(* Claims about the shards, under SpecShards *)

\* The shard whose range holds the directory node k.
OwnerOf(k) == CHOOSE i \in 1..nshards : splits[i] < k /\ k <= splits[i + 1]

\* No node's mutable fields have been touched by two shards, and a shard
\* that is about to touch the candidate list, inflight or error holds the mutex.
NoSharedNode ==
  /\ \A k \in 1..Len(dirs) : touched[k] \subseteq {OwnerOf(k)}
  /\ \A i \in 1..nshards :
       shard[i].pc \in {"inserting", "catching", "exiting"} => mutex = i

\* A step of shard i that changes the candidate list, inflight or error is
\* taken with the mutex held by i; a step that changes a node is its owner's.
LockedAccess ==
  /\ \A i \in 1..nshards :
       /\ shard'[i] # shard[i]
       /\ candidates' # candidates \/ inflight' # inflight \/ error' # error
       => mutex = i
  /\ \A k \in 1..Len(dirs) :
       dirs'[k] # dirs[k] => shard'[OwnerOf(k)] # shard[OwnerOf(k)]

\* C14: in every interleaving of the shards of a call, no two shards touch
\* the mutable fields of the same directory node, and every access of a
\* shard to the candidate list, inflight and error is made with the mutex held.
C14_NoDataRace == []NoSharedNode /\ [][LockedAccess]_vars

\* Two shards at work at once: one has scanned a directory and is scanning
\* on, the other is inserting its candidates under the mutex.
C14_Witness ==
  \E i, j \in 1..nshards :
     /\ i # j
     /\ shard[i].pc = "scan"
     /\ shard[i].begin > splits[i] + 1
     /\ shard[i].begin <= splits[i + 1]
     /\ touched[shard[i].begin - 1] = {i}
     /\ shard[j].pc = "inserting"
     /\ mutex = j

----------------------------------------------------------------------------
(* Index::InitDirs, one record a step, on the byte-sorted record lists over  *)
(* the paths a, d, d.e/f, d/b, d/e/f, d/e/g/h, d/g, e/f; a path in conflict  *)
(* has two records (its stage entries), one after the other.                 *)

MaxRecords == 4

\* The paths in raw byte order ('.' sorts before '/').
RecordPaths ==
  <<<<97>>, <<100>>, <<100, 46, 101, 47, 102>>, P_db, P_def,
    <<100, 47, 101, 47, 103, 47, 104>>, <<100, 47, 103>>, P_ef>>

\* The records of the paths at the positions P of RecordPaths, in order.
RECURSIVE Records(_, _)
Records(P, k) ==
  IF k > Len(RecordPaths) THEN <<>>
  ELSE (IF k \in P THEN <<Entry(RecordPaths[k], 33188, FALSE)>> ELSE <<>>)
       \o Records(P, k + 1)

\* idx with a second record for the path of its k-th record.
WithStage(idx, k) ==
  SubSeq(idx, 1, k) \o <<[idx[k] EXCEPT !.file_size = 2]>> \o SubSeq(idx, k + 1, Len(idx))

RecordLists ==
  LET plain == {Records(P, 1) : P \in {Q \in SUBSET (1..Len(RecordPaths)) :
                                         Cardinality(Q) <= MaxRecords}}
  IN plain \cup UNION {{WithStage(idx, k) : k \in 1..Len(idx)} :
                         idx \in {l \in plain : Len(l) < MaxRecords}}

InitBuild ==
  /\ ParOff
  /\ SplitsOff
  /\ index \in RecordLists
  /\ IsSorted([k \in 1..Len(index) |-> index[k].path])
  /\ dirs = <<>>
  /\ fs = [dir |-> <<>>, file |-> <<>>]
  /\ pc = "off"
  /\ untracked_cache = FALSE
  /\ begin = 0
  /\ dir_fd = NoFd
  /\ res = <<>>
  /\ candidates = <<>>
  /\ calls = 0
  /\ hist = <<>>
  /\ last = NoLast
  /\ bpc = "loop"
  /\ bi = 0
  /\ stack = <<NewDir(<<>>, 0, 0)>>
  /\ popped = <<>>
  /\ total_w = 0

\* The builder's state as the operators of InitDirs take it.
Builder == [stack |-> stack, dirs |-> popped, total |-> total_w, ok |-> TRUE]

\* One iteration of the loop over the records.
BuildEntry ==
  /\ bpc = "loop"
  /\ bi # Len(index)
  /\ \E b \in {AddEntry(Builder, index[bi + 1])} :
       /\ stack' = b.stack
       /\ popped' = b.dirs
       /\ total_w' = b.total
       /\ bpc' = IF b.ok THEN "loop" ELSE "abort"
  /\ bi' = bi + 1
  /\ UNCHANGED <<scanVars, splitVars, parVars, obsVars>>

\* do PopDir(); while (!stack.empty()); std::reverse(dirs_)
BuildEnd ==
  /\ bpc = "loop"
  /\ bi = Len(index)
  /\ \E b \in {PopDirs(Builder, Len(stack))} :
       /\ stack' = b.stack
       /\ popped' = b.dirs
       /\ total_w' = b.total
       /\ dirs' = Reverse(b.dirs)
       /\ bpc' = IF b.ok THEN "done" ELSE "abort"
  /\ UNCHANGED <<index, fs, pc, untracked_cache, begin, dir_fd, res, candidates, calls,
                 hist, last, splitVars, parVars, obsVars, bi>>

NextBuild ==
  \/ BuildEntry
  \/ BuildEnd

SpecDirs == InitBuild /\ [][NextBuild]_vars

----------------------------------------------------------------------------
(* Claims about the directory tree, under SpecDirs *)

\* The directories a record path names: its prefixes that end in '/'.
DirsOf(path) == {SubSeq(path, 1, k) : k \in {j \in 1..Len(path) : path[j] = 47}}

\* The positions of dirs_ whose node has the path p.
NodesAt(p) == {j \in 1..Len(dirs) : Path(dirs[j]) = p}

StrictlySorted(names) == \A k \in 1..(Len(names) - 1) : Cmp(names[k], names[k + 1]) < 0

Basenames(dir) == [k \in 1..Len(dir.files) |-> Basename(dir, dir.files[k])]

\* C15: after InitDirs on a byte-sorted record list, in every node the
\* subdirectories and the files are sorted by name without duplicate names,
\* every record is in the files of exactly one node, the one of its parent
\* directory, and every directory named by a record path has exactly one node.
C15_TreeShape ==
  bpc = "done" =>
    /\ \A j \in 1..Len(dirs) :
         /\ StrictlySorted(dirs[j].subdirs)
         /\ StrictlySorted(Basenames(dirs[j]))
    /\ \A k \in 1..Len(index) :
         /\ Cardinality({<<j, n>> \in (1..Len(dirs)) \X (1..Len(index)) :
                           n <= Len(dirs[j].files) /\ dirs[j].files[n] = index[k]}) = 1
         /\ \E j \in NodesAt(Parent(index[k].path)) : index[k] \in Range(dirs[j].files)
         /\ \A p \in DirsOf(index[k].path) : Cardinality(NodesAt(p)) = 1
    /\ Cardinality(NodesAt(<<>>)) = 1

\* The path of the directory that holds the directory p.
ParentDir(p) == Parent(SubSeq(p, 1, Len(p) - 1))

\* C16: no assertion of the builder fails; in the flattened list the root is
\* first and every directory comes after its parent; and wherever a
\* directory is one level deeper than the one before it in the list, it is a
\* child of it, so CHECK(dir.path.StartsWith(begin[-1]->path)) cannot fail.
C16_ParentsFirst ==
  /\ bpc # "abort"
  /\ bpc = "done" =>
       /\ Path(dirs[1]) = <<>>
       /\ \A k \in 2..Len(dirs) :
            /\ \E j \in 1..(k - 1) : Path(dirs[j]) = ParentDir(Path(dirs[k]))
            /\ dirs[k].depth = Cardinality(DirsOf(Path(dirs[k])))
            /\ dirs[k - 1].depth + 1 = dirs[k].depth
                 => /\ StartsWith(Path(dirs[k]), Path(dirs[k - 1]))
                    /\ Path(dirs[k - 1]) = ParentDir(Path(dirs[k]))

\* A tree with a directory that follows its parent, one that follows a
\* deeper directory of another subtree, and subdirectories that PopDir had
\* to sort.
C16_Witness ==
  /\ bpc = "done"
  /\ \E k \in 2..Len(dirs) : dirs[k - 1].depth >= 1 /\ dirs[k - 1].depth + 1 = dirs[k].depth
  /\ \E k \in 2..Len(dirs) : dirs[k - 1].depth > dirs[k].depth
  /\ \E j \in 1..Len(dirs) :
        /\ Len(dirs[j].subdirs) >= 2
        /\ Path(dirs[j + 1]) = Path(dirs[j]) \o dirs[j].subdirs[Len(dirs[j].subdirs)] \o <<47>>

----------------------------------------------------------------------------
(* Directory handles, under SpecShards *)

\* ScanDirs of shard i is over: it returned or threw.
ScanOver(i) == shard[i].pc \notin {"none", "queued", "scan"}

\* The handles shard i has opened and not closed.
OpenHandles(i) == shard[i].opened \ Range(shard[i].closed)

HandlesBalanced ==
  /\ \A i \in 1..nshards :
       /\ shard[i].opened \subseteq (splits[i] + 1)..splits[i + 1]
       /\ Range(shard[i].closed) \subseteq shard[i].opened
       /\ Len(shard[i].closed) = Cardinality(Range(shard[i].closed))
       /\ OpenHandles(i) = IF shard[i].dir_fd # NoFd THEN {shard[i].begin - 1} ELSE {}
       /\ shard[i].dir_fd # NoFd => shard[i].dir_fd = Path(dirs[shard[i].begin - 1])
       /\ ScanOver(i) => OpenHandles(i) = {}
  /\ root_open <=> cpc \in {"loop", "inline", "wait", "verify"}

\* root_fd is closed by the step that ends the call, and by no other.
RootClosedAtEnd ==
  root_open /\ ~root_open' => cpc = "verify" /\ cpc' \in {"returned", "failed"}

\* C17: every handle a shard opens is closed exactly once, by that shard,
\* before the shard finishes, also after an open, stat or listing failure
\* and when ScanDirs throws; between two directories a shard holds at most
\* one handle, that of the directory it has just processed; and the root
\* handle is closed exactly once per call.
C17_HandlesClosed == []HandlesBalanced /\ [][RootClosedAtEnd]_vars

\* A call has returned in which a shard opened and closed two directories
\* and failed to open a third.
C17_Witness ==
  /\ cpc = "returned"
  /\ ~root_open
  /\ \E i \in 1..nshards :
        /\ Cardinality(shard[i].opened) >= 2
        /\ Len(shard[i].closed) >= 2
        /\ \E k \in (splits[i] + 1)..splits[i + 1] : k \notin shard[i].opened

----------------------------------------------------------------------------
(* A sequence of calls on one Index while the working tree changes between   *)
(* the calls.                                                                *)

MaxScans == 3

DirSt2 == [dev |-> 1, ino |-> 1, mtime |-> 2, size |-> 1]

\* A working tree over the paths of the scan specification: the kind and
\* stat of d/, and what is at a, d/a and d/b.
Tree(rootst, dkind, dst, a, da, db) ==
  [dir |-> [p \in DirPaths |->
              IF p = <<>> THEN [kind |-> "ok", st |-> rootst]
              ELSE IF p = P_d THEN [kind |-> dkind, st |-> dst]
              ELSE DirNode("noent")],
   file |-> [p \in FilePaths |->
               IF p = P_a THEN a
               ELSE IF p = P_da THEN da
               ELSE IF p = P_db THEN db
               ELSE Absent]]

\* d/b as recorded; d/a added and d/b rewritten, the stat of d/ changed;
\* d/a added within the timestamp granularity, the stat of d/ unchanged;
\* d/ unreadable; d/ gone and a added.
ChangeFSSet ==
  {Tree(DirSt1, "ok", DirSt1, Absent, Absent, File(St0)),
   Tree(DirSt1, "ok", DirSt2, Absent, File(St0), File([St0 EXCEPT !.size = 2])),
   Tree(DirSt1, "ok", DirSt1, Absent, File(St0), File(St0)),
   Tree(DirSt1, "nolist", DirSt1, Absent, Absent, Absent),
   Tree(DirSt2, "noent", ZeroDirStat, File(St0), Absent, Absent)}

NeverSeen == [full |-> <<>>, failed |-> FALSE, scanned |-> FALSE, unm |-> {}]

InitChange ==
  /\ BuildOff
  /\ index \in {<<Entry(P_db, 33188, FALSE)>>, <<Entry(P_a, 33188, FALSE), Entry(P_db, 33188, FALSE)>>}
  /\ InitDirs(index).ok
  /\ dirs = InitDirs(index).dirs
  /\ fs \in ChangeFSSet
  /\ pc = "idle"
  /\ untracked_cache = FALSE
  /\ begin = 0
  /\ dir_fd = NoFd
  /\ res = <<>>
  /\ candidates = <<>>
  /\ calls = 0
  /\ hist = <<>>
  /\ last = NoLast
  /\ num_threads = 1
  /\ weights = DirWeights(dirs)
  /\ spc = "off"
  /\ si = Len(dirs)
  /\ sw = 0
  /\ splits = InitSplits(weights, num_threads)
  /\ nshards = 0
  /\ workers = 0
  /\ cpc = "off"
  /\ ci = 0
  /\ shard = <<>>
  /\ mutex = 0
  /\ inflight = 0
  /\ error = FALSE
  /\ root_open = FALSE
  /\ aborted = FALSE
  /\ touched = <<>>
  /\ dirs0 = <<>>
  /\ seen = [k \in 1..Len(dirs) |-> NeverSeen]

\* One iteration of the loop of ScanDirs, and what it shows of the directory.
ScanSeen ==
  /\ ScanIter
  /\ seen' = [seen EXCEPT ![begin] =
                [full |-> IF last'.mode = "full" THEN <<fs.dir[Path(dirs[begin])].st>>
                          ELSE @.full,
                 failed |-> last'.mode = "fail",
                 scanned |-> TRUE,
                 unm |-> IF last'.mode = "full" THEN Untracked(dirs[begin])
                         ELSE IF last'.mode = "fail" THEN {Path(dirs[begin])}
                         ELSE @.unm]]

\* The working tree changes between two calls.
Touch ==
  /\ pc = "idle"
  /\ calls >= 1
  /\ calls < MaxScans
  /\ fs' \in ChangeFSSet \ {fs}
  /\ last' = NoLast
  /\ UNCHANGED <<buildVars, obsVars, index, dirs, pc, untracked_cache, begin, dir_fd, res,
                 candidates, calls, hist, splitVars, parVars>>

NextChange ==
  \/ \E uc \in BOOLEAN : CallUpTo(uc, MaxScans)
  \/ ScanSeen
  \/ Return
  \/ Touch

SpecChange == InitChange /\ [][NextChange]_vars

----------------------------------------------------------------------------
(* Claims about the cached state of a directory, under SpecChange *)

\* The arena holds the strings at the offsets, one after the other, each
\* with its NUL, and nothing else.
RECURSIVE Packed(_, _, _)
Packed(dir, k, at) ==
  IF k > Len(dir.unmatched) THEN at = Len(dir.arena)
  ELSE /\ dir.unmatched[k] = at
       /\ Packed(dir, k + 1, at + Len(CStr(dir.arena, at)) + 1)

\* Every directory holds exactly the unmatched paths of its most recent
\* full rescan, or its own path after its most recent soft failure.
CacheIsLatest ==
  \A k \in 1..Len(dirs) :
     /\ Packed(dirs[k], 1, 0)
     /\ Range(Unmatched(dirs[k])) = seen[k].unm
     /\ Len(dirs[k].unmatched) = Cardinality(seen[k].unm)
     /\ seen[k].failed => Unmatched(dirs[k]) = <<Path(dirs[k])>>

\* A step changes the cached state of a directory only when it is a full
\* rescan or a soft failure of that directory.
CacheFrame ==
  \A k \in 1..Len(dirs) :
     dirs'[k] # dirs[k] =>
       /\ pc = "scan"
       /\ begin = k
       /\ last'.dir = k
       /\ last'.mode \in {"full", "fail"}

\* C18: arena_buffer and unmatched_offsets of a directory change only in a
\* full rescan or a soft failure of it, which clear them first, so after any
\* sequence of scans they hold exactly the unmatched paths of the most
\* recent full rescan (or the own path of the most recent soft failure); a
\* fast-path scan leaves cached_stat, arena_buffer and unmatched_offsets alone.
C18_CacheRebuilt == []CacheIsLatest /\ [][CacheFrame]_vars

\* A full rescan has found d/a untracked in a directory that held its own
\* path from the soft failure of the call before.
C18_Witness ==
  /\ last.mode = "full"
  /\ last.dir = Len(dirs)
  /\ Unmatched(LastDir) = <<P_da>>
  /\ calls >= 1
  /\ P_d \in Range(hist[calls].candidates)

\* The step is an iteration of ScanDirs on the directory k.
Scans(k) == pc = "scan" /\ begin = k /\ begin' = k + 1

\* C19: a directory takes the fast path only if the flag is on, its most
\* recent earlier scan was not a soft failure, and the stat observed equals
\* the one its most recent successful full rescan observed; so its first
\* scan is a full rescan, and so is the scan after a soft failure, which
\* resets cached_stat to zero.
C19_FastPathOnlyIfFresh ==
  [][\A k \in 1..Len(dirs) :
       Scans(k) =>
         /\ last'.mode = "fast" =>
              /\ untracked_cache
              /\ seen[k].scanned
              /\ ~seen[k].failed
              /\ seen[k].full = <<fs.dir[Path(dirs[k])].st>>
         /\ last'.mode = "fail" => dirs'[k].st = ZeroDirStat
         /\ last'.mode = "full" => dirs'[k].st = fs.dir[Path(dirs[k])].st]_vars

\* The fast path was taken for d/ in the third call, after a soft failure in
\* the first call and a full rescan in the second.
C19_Witness ==
  /\ last.mode = "fast"
  /\ last.dir = Len(dirs)
  /\ calls = 2
  /\ P_d \in Range(hist[1].candidates)
  /\ LastDir.st = DirSt1

----------------------------------------------------------------------------
(* Determinism, under SpecShards *)

\* What one ScanDirs over the whole of dirs_ makes of the Index and the
\* working tree the call started with.
Sequential == ScanAll(fs, dirs0, 1, Len(dirs0), NoFd, untracked_cache)

\* C20: for a given Index state and working tree, the list a successful
\* call returns and the cached state it leaves in every directory are the
\* same in every interleaving and completion order of the shards.
C20_Deterministic ==
  cpc = "returned" =>
    /\ candidates = Sort(Sequential.res)
    /\ dirs = Sequential.dirs

\* A call of several shards has returned; two of its shards reported
\* candidates, the later shard's sorting first, and the cached state changed.
C20_Witness ==
  /\ cpc = "returned"
  /\ dirs # dirs0
  /\ \E i, j \in 1..nshards :
        /\ i < j
        /\ shard[i].c # <<>>
        /\ shard[j].c # <<>>
        /\ Cmp(shard[j].c[1], shard[i].c[1]) < 0

====
